---- MODULE Spec2Model ----
(***************************************************************************)
(* Model of the heap allocator of src/main.cpp: arenas obtained from       *)
(* VirtualAlloc, block headers embedded in arena memory, the address-keyed *)
(* block_map, and mem_alloc / mem_free / mem_realloc with block_split and  *)
(* block_unite.  Memory is modelled word by word (4-byte words), headers   *)
(* are read from and written to that memory, so a stale or overwritten     *)
(* header is read back exactly as the machine would read it.  size_t and   *)
(* addresses are WordBits wide and wrap modulo 2^WordBits.                 *)
(***************************************************************************)
EXTENDS Integers, Naturals, Sequences, FiniteSets, Bags, TLC

\* ------------------------------------------------------------------ bounds
\* Width of size_t and of an address, scaled down from 32/64 bits.
WordBits == 7
\* default_arena_size as configured by the caller (main sets 4096), scaled.
default_arena_size == 40
\* The OS provider runs out of memory after this many regions.
MaxArenas == 2
\* The client holds at most this many pointers at a time.
MaxLive == 3
\* Number of calls the client makes (the iterations of tester).
iterations == 5

\* ------------------------------------------------------- program constants
\* sizeof(BlockHeader): size_t size + three bools, padded (32-bit build).
HeaderSize == 8

Modulus == 2 ^ WordBits
\* nullptr
Null == 0
\* Content of a word that belongs to no region granted by the OS.
Unmapped == -1
\* Allocation granularity of the OS provider: every region starts at a
\* multiple of it (scaled down).
Granule == 5 * HeaderSize
\* Base addresses the provider may grant.
Bases == { k * Granule : k \in 1..MaxArenas }
WordAddrs == { a \in 0..(Modulus - 1) : a % 4 = 0 }

\* Request sizes the client draws from: 0, an unaligned small size, an
\* aligned size that can be split again, a size that fills a default arena,
\* and sizes near the largest representable value.
Sizes == { 0, 3, 16, default_arena_size - HeaderSize, Modulus - 4, Modulus - 1 }
\* Request sizes of tester, 1..max_block_size with max_block_size the
\* payload of a default arena: none is 0, none overflows.
TesterSizes == { n \in Sizes : n > 0 /\ n <= default_arena_size - HeaderSize }
\* The value the client writes into its payloads (fresh memory holds 0).
DataVal == 5

VARIABLES
    arena_list,    \* <<[size, base], ...>>, most recently created first
    block_map,     \* keys of std::unordered_map<void*, BlockHeader*>
    mem,           \* word address -> content; Unmapped outside every arena
    crashed,       \* the process faulted (access violation, endless loop)
    allocations,   \* bag of [ptr, size]: pointers the client holds
    last,          \* the last call made and what it returned
    calls          \* number of calls made so far (i in tester)

vars == <<arena_list, block_map, mem, crashed, allocations, last, calls>>

\* --------------------------------------------------------- size_t helpers
Wrap(n) == n % Modulus

Max(a, b) == IF a >= b THEN a ELSE b

\* (size + 3) & ~3 in size_t arithmetic
align(size) == (Wrap(size + 3) \div 4) * 4

\* ------------------------------------------------------------ raw memory
\* The allocator state that the operations thread through.
St(al, bm, m, f) == [al |-> al, bm |-> bm, m |-> m, fault |-> f]

Fault(s) == [s EXCEPT !.fault = TRUE]

\* A BlockHeader at address a can be accessed: both of its words lie in
\* granted memory.
Accessible(m, a) ==
    /\ a % 4 = 0
    /\ a + 4 < Modulus
    /\ m[a] # Unmapped
    /\ m[a + 4] # Unmapped

\* Flag word of a header: is_free, is_first, is_last as bits 0, 1, 2.
FlagWord(is_free, is_first, is_last) ==
    (IF is_free THEN 1 ELSE 0) + (IF is_first THEN 2 ELSE 0)
        + (IF is_last THEN 4 ELSE 0)

Bit(w, i) == (w \div (2 ^ i)) % 2 = 1

SetBit(w, i, v) ==
    IF Bit(w, i) = v THEN w
    ELSE IF v THEN w + 2 ^ i ELSE w - 2 ^ i

\* The BlockHeader read from address a.
BlockHeader(m, a) ==
    [ size     |-> Wrap(m[a]),
      is_free  |-> Bit(m[a + 4], 0),
      is_first |-> Bit(m[a + 4], 1),
      is_last  |-> Bit(m[a + 4], 2) ]

\* ----------------------------------------------------------- OS provider
\* VirtualAlloc(nullptr, size, ...) may grant the region [prov, prov+size):
\* it is not empty, lies below the top of the address space and overlaps no
\* region granted before.
Grantable(al, size, prov) ==
    /\ prov \in Bases
    /\ size > 0
    /\ Len(al) < MaxArenas
    /\ prov + size < Modulus
    /\ \A i \in 1..Len(al) :
          \/ prov + size <= al[i].base
          \/ al[i].base + al[i].size <= prov

\* What VirtualAlloc may answer: Null (a refusal, always possible) or the
\* base of any region it may grant.
VirtualAlloc(al, size) ==
    {Null} \cup { b \in Bases : Grantable(al, size, b) }

\* Size of the region arena_create asks for.
arena_size(size0) == align(Max(size0, default_arena_size))

\* Function to create a new memory arena, prov being VirtualAlloc's answer.
\* Returns the new state and the arena; an arena with base Null stands for
\* the nullptr returned when VirtualAlloc failed.
arena_create(s, size0, prov) ==
    LET size == arena_size(size0)
    IN  IF prov = Null
        THEN [s |-> s, arena |-> [size |-> size, base |-> Null]]
        ELSE LET arena == [size |-> size, base |-> prov]
                 m1 == [a \in WordAddrs |->
                          IF a = prov THEN Wrap(size - HeaderSize)
                          ELSE IF a = prov + 4 THEN FlagWord(TRUE, TRUE, TRUE)
                          ELSE IF a > prov /\ a < prov + size THEN 0
                          ELSE s.m[a]]
             IN  [s |-> [s EXCEPT !.al = <<arena>> \o @,
                                  !.m = m1,
                                  !.bm = @ \cup {prov}],
                  arena |-> arena]

\* ---------------------------------------------------------------- split
\* Variant: the split needs more than header_size + 4 bytes of room.
block_split_strict(s, block, size0) ==
    LET size == align(size0)
        h == BlockHeader(s.m, block)
        new_block == Wrap(block + HeaderSize + size)
    IN  IF h.size > Wrap(size + HeaderSize + 4)
        THEN IF ~Accessible(s.m, new_block)
             THEN Fault(s)
             ELSE LET m1 == [s.m EXCEPT
                               ![new_block] = Wrap(h.size - size - HeaderSize),
                               ![new_block + 4] =
                                   FlagWord(TRUE, FALSE, h.is_last)]
                      m2 == [m1 EXCEPT ![block] = size]
                      m3 == [m2 EXCEPT ![block + 4] = SetBit(m2[block + 4], 2, FALSE)]
                  IN  [s EXCEPT !.m = m3, !.bm = @ \cup {new_block}]
        ELSE s

block_split(s, block, size0) ==
    LET size == align(size0)
        h == BlockHeader(s.m, block)
        new_block == Wrap(block + HeaderSize + size)
    IN  IF h.size >= Wrap(size + HeaderSize + 4)
        THEN IF ~Accessible(s.m, new_block)
             THEN Fault(s)
             ELSE LET m1 == [s.m EXCEPT
                               ![new_block] = Wrap(h.size - size - HeaderSize),
                               ![new_block + 4] =
                                   FlagWord(TRUE, FALSE, h.is_last)]
                      m2 == [m1 EXCEPT ![block] = size]
                      m3 == [m2 EXCEPT ![block + 4] = SetBit(m2[block + 4], 2, FALSE)]
                  IN  [s EXCEPT !.m = m3, !.bm = @ \cup {new_block}]
        ELSE s

\* ---------------------------------------------------------------- unite
\* Variant: the iterator advances after an absorb, without testing the
\* block again.
unite_at_once(s, block) ==
    IF ~Accessible(s.m, block) THEN Fault(s)
    ELSE LET h == BlockHeader(s.m, block)
             next_block == Wrap(block + HeaderSize + h.size)
         IN  IF h.is_free /\ next_block \in s.bm
             THEN IF ~Accessible(s.m, next_block) \/ next_block = block
                  THEN Fault(s)
                  ELSE LET n == BlockHeader(s.m, next_block)
                       IN  IF n.is_free
                           THEN LET m1 == [s.m EXCEPT ![block] =
                                              Wrap(h.size + HeaderSize + n.size)]
                                    m2 == [m1 EXCEPT ![block + 4] =
                                              SetBit(m1[block + 4], 2,
                                                     Bit(m1[next_block + 4], 2))]
                                IN  [s EXCEPT !.m = m2, !.bm = @ \ {next_block}]
                           ELSE s
             ELSE s

\* One position of the iterator of block_unite: while the block is free and
\* its successor is a registered free block, absorb the successor and test
\* again (the `continue` without ++it).
RECURSIVE unite_at(_, _)
unite_at(s, block) ==
    IF ~Accessible(s.m, block) THEN Fault(s)
    ELSE LET h == BlockHeader(s.m, block)
             next_block == Wrap(block + HeaderSize + h.size)
         IN  IF h.is_free /\ next_block \in s.bm
             THEN IF ~Accessible(s.m, next_block) \/ next_block = block
                  THEN Fault(s)
                  ELSE LET n == BlockHeader(s.m, next_block)
                       IN  IF n.is_free
                           THEN LET m1 == [s.m EXCEPT ![block] =
                                              Wrap(h.size + HeaderSize + n.size)]
                                    m2 == [m1 EXCEPT ![block + 4] =
                                              SetBit(m1[block + 4], 2,
                                                     Bit(m1[next_block + 4], 2))]
                                IN  unite_at([s EXCEPT !.m = m2,
                                                       !.bm = @ \ {next_block}],
                                             block)
                           ELSE s
             ELSE s

\* Variant: the loop of block_unite ends after the first entry it visits.
unite_first(s, todo) ==
    IF s.fault \/ todo \cap s.bm = {} THEN {s}
    ELSE { unite_at(s, b) : b \in todo \cap s.bm }

\* The loop of block_unite over block_map.  The iteration order of an
\* unordered_map is unspecified: every order is a possible outcome.  todo
\* holds the entries the iterator has not reached yet.
RECURSIVE unite_from(_, _)
unite_from(s, todo) ==
    IF s.fault \/ todo \cap s.bm = {} THEN {s}
    ELSE UNION { unite_from(unite_at(s, b), todo \ {b}) : b \in todo \cap s.bm }

\* Function to coalesce adjacent free blocks: the set of possible results.
block_unite(s) == unite_from(s, s.bm)

\* ---------------------------------------------------------------- alloc
\* The while loop of block_alloc, from address base.  fuel counts the
\* iterations left before the walk is known to repeat itself forever.
RECURSIVE block_walk(_, _, _, _, _)
block_walk(s, arena, size, base, fuel) ==
    IF ~(base < Wrap(arena.base + arena.size)) THEN [s |-> s, ret |-> Null]
    ELSE IF fuel = 0 \/ ~Accessible(s.m, base) THEN [s |-> Fault(s), ret |-> Null]
    ELSE LET h == BlockHeader(s.m, base)
         IN  IF h.is_free /\ h.size >= size
             THEN LET s1 == block_split(s, base, size)
                  IN  IF s1.fault THEN [s |-> s1, ret |-> Null]
                      ELSE [s |-> [s1 EXCEPT !.m[base + 4] = SetBit(@, 0, FALSE)],
                            ret |-> Wrap(base + HeaderSize)]
             ELSE block_walk(s, arena, size,
                             Wrap(base + HeaderSize + h.size), fuel - 1)

\* Function to allocate a block of memory from an arena.
block_alloc(s, arena, size0) ==
    block_walk(s, arena, align(size0), arena.base, Cardinality(WordAddrs))

\* The loop of mem_alloc over arena_list, from its i-th arena.
RECURSIVE arena_scan(_, _, _)
arena_scan(s, size, i) ==
    IF i > Len(s.al) THEN [s |-> s, ret |-> Null]
    ELSE LET r == block_alloc(s, s.al[i], size)
         IN  IF r.s.fault \/ r.ret # Null THEN r
             ELSE arena_scan(s, size, i + 1)

\* mem_alloc once no arena of the list could serve the request, prov being
\* VirtualAlloc's answer.
alloc_new_arena(s, size, prov) ==
    LET c == arena_create(s, Wrap(size + HeaderSize), prov)
    IN  IF c.arena.base = Null THEN [s |-> s, ret |-> Null]
        ELSE block_alloc(c.s, c.arena, size)

\* Function to allocate memory: the set of possible [s, ret], one for each
\* answer VirtualAlloc may give when it is asked.
mem_alloc(s, size0) ==
    IF size0 = 0 THEN {[s |-> s, ret |-> Null]}
    ELSE LET size == align(size0)
             r == arena_scan(s, size, 1)
         IN  IF r.s.fault \/ r.ret # Null THEN {r}
             ELSE { alloc_new_arena(s, size, prov) :
                      prov \in VirtualAlloc(s.al,
                                  arena_size(Wrap(size + HeaderSize))) }

\* ----------------------------------------------------------------- free
\* Function to free memory: the set of possible resulting states.
mem_free_unchecked(s, ptr) ==
    IF ptr = Null THEN {s}
    ELSE LET block == Wrap(ptr - HeaderSize)
         IN  IF ~Accessible(s.m, block) THEN {Fault(s)}
             ELSE block_unite([s EXCEPT !.m[block + 4] = SetBit(@, 0, TRUE)])

mem_free(s, ptr) ==
    IF ptr = Null THEN {s}
    ELSE LET block == Wrap(ptr - HeaderSize)
         IN  IF block \notin s.bm THEN {s}
             ELSE IF ~Accessible(s.m, block) THEN {Fault(s)}
             ELSE block_unite([s EXCEPT !.m[block + 4] = SetBit(@, 0, TRUE)])

\* -------------------------------------------------------------- realloc
\* memcpy(dst, src, n): n bytes, copied word by word.
WordsOf(lo, n) == { a \in WordAddrs : a >= lo /\ a < lo + n }

memcpy(s, dst, src, n) ==
    IF \E k \in 0..(n - 1) :
          \/ src + k >= Modulus \/ dst + k >= Modulus
          \/ s.m[((src + k) \div 4) * 4] = Unmapped
          \/ s.m[((dst + k) \div 4) * 4] = Unmapped
    THEN Fault(s)
    ELSE [s EXCEPT !.m = [a \in WordAddrs |->
                            IF a \in WordsOf(dst, n) THEN s.m[src + (a - dst)]
                            ELSE s.m[a]]]

\* realloc_move with the old block freed even when mem_alloc failed.
realloc_move_freeing(s, ptr, block, r) ==
    IF r.s.fault THEN {r}
    ELSE IF r.ret = Null
    THEN { [s |-> f, ret |-> Null] : f \in mem_free(r.s, ptr) }
    ELSE LET c == memcpy(r.s, r.ret, ptr, BlockHeader(r.s.m, block).size)
         IN  IF c.fault THEN {[s |-> c, ret |-> Null]}
             ELSE { [s |-> f, ret |-> r.ret] : f \in mem_free(c, ptr) }

\* mem_realloc once mem_alloc returned r: copy, free the old block.
realloc_move(s, ptr, block, r) ==
    IF r.s.fault \/ r.ret = Null THEN {r}
    ELSE LET c == memcpy(r.s, r.ret, ptr, BlockHeader(r.s.m, block).size)
         IN  IF c.fault THEN {[s |-> c, ret |-> Null]}
             ELSE { [s |-> f, ret |-> r.ret] : f \in mem_free(c, ptr) }

\* Function to reallocate memory: the set of possible [s, ret].
mem_realloc(s, ptr, size0) ==
    IF ptr = Null THEN mem_alloc(s, size0)
    ELSE LET size == align(size0)
             block == Wrap(ptr - HeaderSize)
         IN  IF block \notin s.bm THEN {[s |-> s, ret |-> Null]}
             ELSE IF ~Accessible(s.m, block) THEN {[s |-> Fault(s), ret |-> Null]}
             ELSE IF BlockHeader(s.m, block).size >= size
                  THEN {[s |-> block_split(s, block, size), ret |-> ptr]}
                  ELSE UNION { realloc_move(s, ptr, block, r) :
                                 r \in mem_alloc(s, size) }

\* ------------------------------------------------------------- the client
\* The caller of the allocator, as in tester: it keeps the pointers it was
\* given with the size it asked for, fills each one right after it got it,
\* and frees or reallocates them.
Cur == St(arena_list, block_map, mem, crashed)

Entry(p, n) == [ptr |-> p, size |-> n]

One(e) == SetToBag({e})

\* A call as the client made it: the pointer and size passed, the pointer
\* returned, whether it frees a pointer the call before already freed, and
\* whether the client held the pointer it passed.
Call(op, p, n, ret, again, held) ==
    [op |-> op, ptr |-> p, size |-> n, ret |-> ret, again |-> again,
     held |-> held]

NoMemory == [a \in WordAddrs |-> Unmapped]

\* The call leaves the allocator in state s, the client with allocs; a
\* faulted process is gone, whatever its memory held.
Commit(s, allocs, call) ==
    IF s.fault
    THEN /\ arena_list' = <<>>
         /\ block_map' = {}
         /\ mem' = NoMemory
         /\ crashed' = TRUE
         /\ allocations' = EmptyBag
         /\ last' = Call("crash", Null, 0, Null, FALSE, TRUE)
    ELSE /\ arena_list' = s.al
         /\ block_map' = s.bm
         /\ mem' = s.m
         /\ crashed' = FALSE
         /\ allocations' = allocs
         /\ last' = call

\* The call frees a pointer that the call before it already freed:
\* free(p) after free(p), or after a mem_realloc(p, ..) that moved the data.
Again(p) ==
    /\ p # Null
    /\ last.ptr = p
    /\ \/ last.op = "free"
       \/ last.op = "realloc" /\ last.ret # Null /\ last.ret # p

\* The client was just handed a pointer and has not filled it yet.
PendingFill == last.op \in {"alloc", "realloc"} /\ last.ret # Null

Init ==
    /\ arena_list = <<>>
    /\ block_map = {}
    /\ mem = NoMemory
    /\ crashed = FALSE
    /\ allocations = EmptyBag
    /\ last = Call("init", Null, 0, Null, FALSE, TRUE)
    /\ calls = 0

\* ptr = mem_alloc(size); kept when not null.
DoAlloc(size, limit) ==
    /\ ~crashed
    /\ calls < limit
    /\ calls' = calls + 1
    /\ BagCardinality(allocations) < MaxLive
    /\ \E r \in mem_alloc(Cur, size) :
           Commit(r.s,
                  IF r.ret # Null THEN allocations (+) One(Entry(r.ret, size))
                  ELSE allocations,
                  Call("alloc", Null, size, r.ret, FALSE, TRUE))

\* mem_free(ptr); the client gives up the entries in gone.
DoFree(ptr, gone, limit) ==
    /\ ~crashed
    /\ calls < limit
    /\ calls' = calls + 1
    /\ \E f \in mem_free(Cur, ptr) :
          Commit(f, allocations (-) gone, Call("free", ptr, 0, Null, Again(ptr), gone # EmptyBag))

\* new_ptr = mem_realloc(ptr, size); when not null it replaces the entries
\* in gone.
DoRealloc(ptr, size, gone, limit) ==
    /\ ~crashed
    /\ calls < limit
    /\ calls' = calls + 1
    /\ \E r \in mem_realloc(Cur, ptr, size) :
          Commit(r.s,
                 IF r.ret # Null
                 THEN (allocations (-) gone) (+) One(Entry(r.ret, size))
                 ELSE allocations,
                 Call("realloc", ptr, size, r.ret, FALSE, gone # EmptyBag))

\* random_input(ptr, size): the client fills the bytes it asked for.
random_input(s, ptr, size) ==
    IF \E k \in 0..(size - 1) :
          \/ ptr + k >= Modulus
          \/ s.m[((ptr + k) \div 4) * 4] = Unmapped
    THEN Fault(s)
    ELSE [s EXCEPT !.m = [a \in WordAddrs |->
                            IF a \in WordsOf(ptr, size) THEN DataVal ELSE s.m[a]]]

\* A client that calls as tester does, with any of Sizes (as main does).
\* case 0 of tester: mem_alloc.
Alloc ==
    \E size \in Sizes : last.held /\ ~PendingFill /\ DoAlloc(size, iterations)

\* case 1 of tester: a pointer the client holds is freed and forgotten.
Free ==
    \E e \in BagToSet(allocations) :
        last.held /\ ~PendingFill /\ DoFree(e.ptr, One(e), iterations)

\* case 2 of tester: a pointer the client holds is reallocated.
Realloc ==
    \E e \in BagToSet(allocations), size \in Sizes :
        last.held /\ ~PendingFill /\ DoRealloc(e.ptr, size, One(e), iterations)

\* cases 0 and 2 of tester: the pointer just returned is filled.
Write ==
    /\ ~crashed
    /\ PendingFill
    /\ last.held
    /\ UNCHANGED calls
    /\ Commit(random_input(Cur, last.ret, last.size), allocations,
              Call("write", last.ret, last.size, Null, FALSE, TRUE))

Next == Alloc \/ Free \/ Realloc \/ Write

Spec == Init /\ [][Next]_vars

\* tester itself: sizes in 1..max_block_size, one more iteration.
TesterAlloc ==
    \E size \in TesterSizes :
        ~PendingFill /\ DoAlloc(size, iterations + 1)

TesterFree ==
    \E e \in BagToSet(allocations) :
        ~PendingFill /\ DoFree(e.ptr, One(e), iterations + 1)

TesterRealloc ==
    \E e \in BagToSet(allocations), size \in TesterSizes :
        ~PendingFill /\ DoRealloc(e.ptr, size, One(e), iterations + 1)

TesterNext == TesterAlloc \/ TesterFree \/ TesterRealloc \/ Write

SpecTester == Init /\ [][TesterNext]_vars

\* A client that may also pass a pointer it does not hold.  The pointers
\* it may pass: null, the payload of every registered block, the pointer of
\* its last call and the one that call returned (freed or superseded by
\* now), and an address past the first header that no call ever returned.  After
\* a call that broke the contract only a repeat of that free is explored.
Pointers ==
    ({Null, last.ptr, last.ret, Granule + HeaderSize + 4}
        \cup { Wrap(b + HeaderSize) : b \in block_map })
        \ { e.ptr : e \in BagToSet(allocations) }

FreeAny ==
    \E ptr \in Pointers :
        /\ last.held \/ (last.op = "free" /\ last.ptr = ptr)
        /\ DoFree(ptr, EmptyBag, iterations)

ReallocAny ==
    \E ptr \in Pointers \ {Null}, size \in Sizes :
        last.held /\ DoRealloc(ptr, size, EmptyBag, iterations)

NextAny == Next \/ FreeAny \/ ReallocAny

SpecAny == Init /\ [][NextAny]_vars

\* ------------------------------------------------------------ the claims
Live == BagToSet(allocations)

\* The bytes [e.ptr, e.ptr + e.size) lie inside one arena.
InOneArena(e) ==
    \E k \in 1..Len(arena_list) :
        /\ arena_list[k].base <= e.ptr
        /\ e.ptr + e.size <= arena_list[k].base + arena_list[k].size

\* Two byte ranges share a byte.
Overlap(e1, e2) ==
    /\ e1.size > 0
    /\ e2.size > 0
    /\ e1.ptr < e2.ptr + e2.size
    /\ e2.ptr < e1.ptr + e1.size

\* The round-up of n to a multiple of 4 exceeds the width of size_t.
Oversized(n) == n + 3 >= Modulus

\* Header address of the block a payload pointer belongs to.
BlockOf(ptr) == Wrap(ptr - HeaderSize)

\* C1: after any sequence of valid allocate / free / reallocate calls, with
\* arenas placed anywhere (back to back included), every live pointer's
\* range [p, p + requested_size) lies inside one arena and is disjoint from
\* the range of every other live pointer.  Stated for the requests whose
\* aligned size does not overflow; the others are the matter of C2.
C1_LiveRangesDisjoint ==
    \A e \in Live :
        ~Oversized(e.size) =>
            /\ InOneArena(e)
            /\ e.size > 0 => CopiesIn(e, allocations) = 1
            /\ \A f \in Live \ {e} : ~Oversized(f.size) => ~Overlap(e, f)

\* C2: allocate(size) for a size whose round-up to a multiple of 4 exceeds
\* the width of size_t returns none, and allocate never returns a pointer
\* to a block smaller than the requested size.
C2_OversizedReturnsNone ==
    last.op = "alloc" =>
        /\ Oversized(last.size) => last.ret = Null
        /\ last.ret # Null => BlockHeader(mem, BlockOf(last.ret)).size >= last.size

\* C3: whenever allocate returns none (size 0, the provider refuses, the
\* request is oversized), the arena list, the block table and every block
\* header are exactly as they were before the call.
C3_FailedAllocChangesNothing ==
    [][(last'.op = "alloc" /\ last'.ret = Null)
          => UNCHANGED <<arena_list, block_map, mem>>]_vars

\* The call just made is mem_realloc(p, n) on a pointer the client held.
ReallocOfLive(c) == c.op = "realloc" /\ c.held /\ c.ptr # Null

\* C4: when reallocate(p, new_size) on a live pointer has to grow (the block
\* is smaller than the aligned new size) and the inner allocation fails, it
\* returns none and the block of p is untouched: same size, same flags
\* (still not free), still registered.
C4_FailedGrowKeepsBlock ==
    [][(/\ ReallocOfLive(last')
        /\ BlockOf(last'.ptr) \in block_map
        /\ BlockHeader(mem, BlockOf(last'.ptr)).size < align(last'.size)
        /\ last'.ret = Null)
          => /\ BlockOf(last'.ptr) \in block_map'
             /\ mem'[BlockOf(last'.ptr)] = mem[BlockOf(last'.ptr)]
             /\ mem'[BlockOf(last'.ptr) + 4] = mem[BlockOf(last'.ptr) + 4]]_vars

\* A failed growing reallocate has returned: the block is still registered,
\* not free and smaller than the size asked for.
C4_Witness ==
    /\ ReallocOfLive(last)
    /\ last.ret = Null
    /\ BlockOf(last.ptr) \in block_map
    /\ BlockHeader(mem, BlockOf(last.ptr)).size < align(last.size)
    /\ ~BlockHeader(mem, BlockOf(last.ptr)).is_free
    /\ \E e \in Live : e.ptr = last.ptr

\* C5: for a live pointer p whose block size is at least align(new_size),
\* reallocate(p, new_size) returns exactly p, the block of p stays not free
\* and its size afterwards is still at least align(new_size).
C5_ShrinkInPlace ==
    [][(/\ ReallocOfLive(last')
        /\ Accessible(mem, BlockOf(last'.ptr))
        /\ BlockHeader(mem, BlockOf(last'.ptr)).size >= align(last'.size))
          => /\ last'.ret = last'.ptr
             /\ ~BlockHeader(mem', BlockOf(last'.ptr)).is_free
             /\ BlockHeader(mem', BlockOf(last'.ptr)).size >= align(last'.size)]_vars

\* The growing path of reallocate returned a pointer: the block of the old
\* pointer was registered and smaller than the aligned new size.
GrewFrom(m, bm, c) ==
    /\ ReallocOfLive(c)
    /\ c.ret # Null
    /\ BlockOf(c.ptr) \in bm
    /\ BlockHeader(m, BlockOf(c.ptr)).size < align(c.size)

\* C6: when reallocate(p, new_size) on a live pointer grows successfully, it
\* returns a pointer q different from p, the first old-block-size bytes at q
\* equal the bytes that were at p before the call, the block of q is not
\* free with size at least align(new_size), and the old block of p is free,
\* or absorbed into a free block, on return.
C6_GrowMovesData ==
    [][GrewFrom(mem, block_map, last')
          => /\ last'.ret # last'.ptr
             /\ \A a \in WordsOf(0, BlockHeader(mem, BlockOf(last'.ptr)).size) :
                   mem'[last'.ret + a] = mem[last'.ptr + a]
             /\ ~BlockHeader(mem', BlockOf(last'.ret)).is_free
             /\ BlockHeader(mem', BlockOf(last'.ret)).size >= align(last'.size)
             /\ \/ /\ BlockOf(last'.ptr) \in block_map'
                   /\ BlockHeader(mem', BlockOf(last'.ptr)).is_free
                \/ \E b \in block_map' :
                      /\ BlockHeader(mem', b).is_free
                      /\ b < BlockOf(last'.ptr)
                      /\ last'.ptr + BlockHeader(mem, BlockOf(last'.ptr)).size
                            <= b + HeaderSize + BlockHeader(mem', b).size]_vars

\* C7: no allocator operation on other pointers writes into [p, p + n)
\* while p, obtained for n bytes, is live: the bytes of every pointer the
\* client holds before and after a call, other than the one passed to the
\* call, are the same after it.
C7_LivePayloadUntouched ==
    [][last'.op \in {"alloc", "free", "realloc"}
          => \A e \in Live :
                (e.ptr # last'.ptr /\ e \in BagToSet(allocations'))
                   => \A a \in WordsOf(e.ptr, e.size) : mem'[a] = mem[a]]_vars

\* The registered free blocks of an arena that hold n bytes.
FreeFits(arena, n) ==
    { b \in block_map :
        /\ arena.base <= b
        /\ b < arena.base + arena.size
        /\ BlockHeader(mem, b).is_free
        /\ BlockHeader(mem, b).size >= n }

Lowest(S) == CHOOSE x \in S : \A y \in S : x <= y

\* The payload first-fit selects for n bytes, Null when no block fits.
FirstFit(n) ==
    LET ks == { k \in 1..Len(arena_list) : FreeFits(arena_list[k], n) # {} }
    IN  IF ks = {} THEN Null
        ELSE Wrap(Lowest(FreeFits(arena_list[Lowest(ks)], n)) + HeaderSize)

\* C10: allocate(size) is first-fit: it returns the payload of the
\* lowest-address free block with size >= align(size) inside the most
\* recently created arena that contains such a block.
C10_FirstFit ==
    [][(last'.op = "alloc" /\ last'.size > 0 /\ FirstFit(align(last'.size)) # Null)
          => last'.ret = FirstFit(align(last'.size))]_vars

\* The call passed a pointer whose header address is not a key of block_map.
Unknown(bm, c) ==
    \/ c.op = "free" /\ (c.ptr = Null \/ BlockOf(c.ptr) \notin bm)
    \/ c.op = "realloc" /\ c.ptr # Null /\ BlockOf(c.ptr) \notin bm

\* C8: free(none), free(x) and reallocate(x, n) for a non-none x whose
\* header address is not a key of the block table leave the whole allocator
\* state unchanged, and reallocate returns none.
C8_UnknownPointerIgnored ==
    [][Unknown(block_map, last')
          => /\ UNCHANGED <<arena_list, block_map, mem>>
             /\ last'.op = "realloc" => last'.ret = Null]_vars

\* An unknown pointer whose header bytes are mapped memory was passed to
\* free, and the allocator holds blocks.
C8_Witness ==
    /\ last.op = "free"
    /\ last.ptr # Null
    /\ BlockOf(last.ptr) \notin block_map
    /\ Accessible(mem, BlockOf(last.ptr))
    /\ block_map # {}

\* C9: a repeated free is idempotent: free(p) right after free(p), or right
\* after reallocate(p, bigger) returned a different pointer, leaves the
\* allocator state as the call before it left it.
C9_RepeatedFreeIdempotent ==
    [][(last'.op = "free" /\ last'.again)
          => UNCHANGED <<arena_list, block_map, mem>>]_vars

\* The repeated free found its block still registered, so it set the flag
\* and ran the coalescing pass.
C9_Witness ==
    /\ last.op = "free"
    /\ last.again
    /\ BlockOf(last.ptr) \in block_map
    /\ Cardinality(block_map) > 1

\* The call just made created an arena: it is the head of arena_list'.
NewArena == Len(arena_list') > Len(arena_list)

\* C11: allocate creates a new arena only when no free block of an existing
\* arena has size >= align(size); it then creates exactly one arena, of size
\* at least align(size) + header_size and at least default_arena_size, and
\* the allocation is served from that arena (the provider having succeeded).
C11_NewArenaOnMiss ==
    [][(last'.op = "alloc" /\ last'.size > 0)
          => /\ Len(arena_list') <= Len(arena_list) + 1
             /\ NewArena =>
                  /\ FirstFit(align(last'.size)) = Null
                  /\ arena_list'[1].size >= align(last'.size) + HeaderSize
                  /\ arena_list'[1].size >= default_arena_size
                  /\ last'.ret # Null
                  /\ arena_list'[1].base < last'.ret
                  /\ last'.ret < arena_list'[1].base + arena_list'[1].size]_vars

\* A public operation has just completed.
AfterOperation == last.op \in {"alloc", "free", "realloc"}

\* Addresses a and b lie inside the same arena.
SameArena(a, b) ==
    \E k \in 1..Len(arena_list) :
        /\ arena_list[k].base <= a /\ a < arena_list[k].base + arena_list[k].size
        /\ arena_list[k].base <= b /\ b < arena_list[k].base + arena_list[k].size

\* Address of the block that follows block b in memory.
NextOf(m, b) == Wrap(b + HeaderSize + BlockHeader(m, b).size)

\* Registered block b and the registered block right after it, in the same
\* arena, are both free.
AdjacentFree(b) ==
    /\ b \in block_map
    /\ Accessible(mem, b)
    /\ BlockHeader(mem, b).is_free
    /\ NextOf(mem, b) \in block_map
    /\ NextOf(mem, b) # b
    /\ SameArena(b, NextOf(mem, b))
    /\ Accessible(mem, NextOf(mem, b))
    /\ BlockHeader(mem, NextOf(mem, b)).is_free

\* C12: after every public operation (allocate, free, reallocate)
\* completes, no two address-adjacent blocks within the same arena are both
\* free.
C12_NoAdjacentFree ==
    AfterOperation => \A b \in block_map : ~AdjacentFree(b)

\* C13: a coalescing merge never crosses an arena boundary, wherever the
\* provider places the arenas (one starting exactly where another ends
\* included): no operation grows a registered block flagged is_last.
C13_LastBlockNeverGrown ==
    [][last'.op \in {"alloc", "free", "realloc"}
          => \A b \in block_map \cap block_map' :
                (Accessible(mem, b) /\ BlockHeader(mem, b).is_last)
                   => BlockHeader(mem', b).size <= BlockHeader(mem, b).size]_vars

\* End of an arena: the address right after its last byte.
EndOf(arena) == arena.base + arena.size

\* The block starts reached by walking memory from address a up to end,
\* next = address + header_size + size.
RECURSIVE Walked(_, _, _)
Walked(m, a, end) ==
    IF a >= end \/ ~Accessible(m, a) THEN {}
    ELSE {a} \cup Walked(m, a + HeaderSize + BlockHeader(m, a).size, end)

\* The address at which that walk stops.
RECURSIVE WalkEnd(_, _, _)
WalkEnd(m, a, end) ==
    IF a >= end \/ ~Accessible(m, a) THEN a
    ELSE WalkEnd(m, a + HeaderSize + BlockHeader(m, a).size, end)

\* C14: after every public operation, in every arena the blocks reached by
\* walking from the arena base tile the arena exactly: the walk ends at the
\* arena's end, so the sum of header_size + size over them is its size.
C14_BlocksTileArena ==
    AfterOperation =>
        \A k \in 1..Len(arena_list) :
            WalkEnd(mem, arena_list[k].base, EndOf(arena_list[k]))
                = EndOf(arena_list[k])

\* C15: after every public operation, the key set of the block table is
\* exactly the set of block starts reached by walking every arena from its
\* base.
C15_TableMirrorsWalk ==
    AfterOperation =>
        block_map = UNION { Walked(mem, arena_list[k].base, EndOf(arena_list[k])) :
                              k \in 1..Len(arena_list) }

\* The registered blocks that start inside an arena.
BlocksIn(arena) == { b \in block_map : arena.base <= b /\ b < EndOf(arena) }

\* C16: after every public operation, every arena has exactly one block
\* with is_first (the block at the arena base) and exactly one block with
\* is_last (the block ending at the arena end).
C16_OneFirstOneLast ==
    AfterOperation =>
        \A k \in 1..Len(arena_list) :
            /\ { b \in BlocksIn(arena_list[k]) : BlockHeader(mem, b).is_first }
                  = {arena_list[k].base}
            /\ { b \in BlocksIn(arena_list[k]) : BlockHeader(mem, b).is_last }
                  = { b \in BlocksIn(arena_list[k]) :
                        b + HeaderSize + BlockHeader(mem, b).size
                           = EndOf(arena_list[k]) }
            /\ Cardinality({ b \in BlocksIn(arena_list[k]) :
                               BlockHeader(mem, b).is_last }) = 1

\* ------------------------------------------------- the coalescing pass
\* block_unite run on its own, at most twice in a row, between the calls
\* of tester.  The call records in size how many entries the first pass
\* erased, and in again that it is the second pass in a row.
Unite ==
    /\ ~crashed
    /\ ~PendingFill
    /\ last.op = "unite" => ~last.again
    /\ UNCHANGED calls
    /\ \E f \in block_unite(Cur) :
          Commit(f, allocations,
                 Call("unite", Null,
                      IF last.op = "unite" THEN last.size
                      ELSE Cardinality(block_map) - Cardinality(f.bm),
                      Null, last.op = "unite", TRUE))

UniteNext == TesterNext \/ Unite

SpecUnite == Init /\ [][UniteNext]_vars

\* The call c, made with block table bm, ran the coalescing pass: directly,
\* in mem_free on a registered block, or in a mem_realloc that moved.
PassRan(c, bm) ==
    \/ c.op = "unite"
    \/ c.op = "free" /\ c.ptr # Null /\ BlockOf(c.ptr) \in bm
    \/ /\ c.op = "realloc"
       /\ c.ptr # Null
       /\ BlockOf(c.ptr) \in bm
       /\ c.ret \notin {Null, c.ptr}

NoAdjacentFree == \A b \in block_map : ~AdjacentFree(b)

\* C17: the coalescing pass is order-independent: for every order in which
\* block_unite may visit the block table, when the pass finishes no two
\* address-adjacent blocks within an arena are both free.
C17_PassLeavesNoAdjacentFree ==
    [][PassRan(last', block_map) => NoAdjacentFree']_vars

\* mem_free ran the pass and its block was absorbed by a free block before
\* it that also absorbed the block after it: two merges, whose order the
\* iteration decides.
C17_Witness ==
    /\ last.op = "free"
    /\ last.held
    /\ BlockOf(last.ptr) \notin block_map
    /\ Accessible(mem, BlockOf(last.ptr))
    /\ \E b \in block_map :
          /\ b < BlockOf(last.ptr)
          /\ BlockHeader(mem, b).is_free
          /\ SameArena(b, BlockOf(last.ptr))
          /\ b + HeaderSize + BlockHeader(mem, b).size
                > BlockOf(last.ptr) + HeaderSize
                    + BlockHeader(mem, BlockOf(last.ptr)).size

\* C18: coalescing is idempotent: from any reachable state, running the
\* coalescing pass twice in a row yields exactly the block table and
\* headers that running it once yields.
C18_UniteIdempotent ==
    [][(last'.op = "unite" /\ last'.again)
          => UNCHANGED <<arena_list, block_map, mem>>]_vars

\* The pass ran twice in a row, and the first run merged blocks.
C18_Witness ==
    /\ last.op = "unite"
    /\ last.again
    /\ last.size > 0

\* ------------------------------------------------------- split boundary
\* tester with the sizes, among 1..max_block_size, that meet the blocks of
\* a default arena at the boundary of block_split: block size equal to
\* align(size) + header_size + 4 (split, tail of 4 bytes) and equal to
\* align(size) + header_size (no split).
SplitSizes == { 3, HeaderSize, default_arena_size - HeaderSize - 12,
                default_arena_size - HeaderSize - 11 }

SplitAlloc ==
    \E size \in SplitSizes :
        ~PendingFill /\ DoAlloc(size, iterations)

SplitRealloc ==
    \E e \in BagToSet(allocations), size \in SplitSizes :
        ~PendingFill /\ DoRealloc(e.ptr, size, One(e), iterations)

SplitNext == SplitAlloc \/ TesterFree \/ SplitRealloc \/ Write

SpecSplit == Init /\ [][SplitNext]_vars

\* The header, before the call, of the block mem_alloc has just handed
\* out: read from memory, or the initial block of the arena just created.
Original ==
    IF NewArena
    THEN [ size |-> arena_list'[1].size - HeaderSize, is_free |-> TRUE,
           is_first |-> TRUE, is_last |-> TRUE ]
    ELSE BlockHeader(mem, BlockOf(last'.ret))

\* mem_alloc has just returned a block.
Served == last'.op = "alloc" /\ last'.ret # Null

\* C19: split and coalesce are inverses: when allocate(n) splits a free
\* block of size exactly n + header_size + 4 and both resulting blocks are
\* then freed, the block table again holds a single free block at the
\* original address with the original size and first/last flags.
C19_SplitThenFreeRestores ==
    [][(Served /\ Original.size = last'.size + HeaderSize + 4)
          => \A f \in mem_free(Cur', last'.ret) :
                /\ ~f.fault
                /\ BlockOf(last'.ret) \in f.bm
                /\ \A a \in f.bm :
                      ~(/\ BlockOf(last'.ret) < a
                        /\ a < last'.ret + Original.size)
                /\ BlockHeader(f.m, BlockOf(last'.ret)) = Original]_vars

\* C20: splitting happens exactly when block.size >= align(requested) +
\* header_size + 4: the block shrinks to exactly align(requested) and a new
\* free, registered tail block with is_first = false inherits the
\* original's is_last while the original's is_last is cleared; otherwise
\* the block is handed out whole, so it exceeds the aligned request by at
\* most header_size + 3 bytes.
C20_SplitExactlyWhenRoom ==
    [][Served =>
          LET block == BlockOf(last'.ret)
              size == align(last'.size)
              tail == last'.ret + size
              now == BlockHeader(mem', block)
          IN  IF Original.size >= size + HeaderSize + 4
              THEN /\ now.size = size
                   /\ ~now.is_last
                   /\ tail \in block_map'
                   /\ BlockHeader(mem', tail)
                        = [ size |-> Original.size - size - HeaderSize,
                            is_free |-> TRUE, is_first |-> FALSE,
                            is_last |-> Original.is_last ]
              ELSE /\ now.size = Original.size
                   /\ now.is_last = Original.is_last
                   /\ block_map' \ {block} = block_map \ {block}
                   /\ now.size <= size + HeaderSize + 3]_vars

\* mem_alloc split a block that had exactly align(size) + header_size + 4
\* bytes: the tail it registered has 4 bytes.
C20_Witness ==
    /\ last.op = "alloc"
    /\ last.ret # Null
    /\ BlockHeader(mem, BlockOf(last.ret)).size = align(last.size)
    /\ ~BlockHeader(mem, BlockOf(last.ret)).is_free
    /\ last.ret + align(last.size) \in block_map
    /\ BlockHeader(mem, last.ret + align(last.size)).size = 4
    /\ BlockHeader(mem, last.ret + align(last.size)).is_free

====
